---- MODULE Spec2Model ----
(***************************************************************************)
(* A model of emsm/core/server.py: the server wrappers (install,           *)
(* reinstall, is_online, translate_command, world_address), the abstract   *)
(* methods MCServer inherits, and the ServerManager.                       *)
(*                                                                         *)
(* One wrapper object, `self`, is followed through its calls.  The         *)
(* filesystem is the part of it the methods of that object name: the path  *)
(* self._server, the files urlretrieve leaves in the temporary directory,  *)
(* the temporary directories of reinstall and of Spigot.build_dir, the     *)
(* configured build directory and the working directory of the process.    *)
(***************************************************************************)
EXTENDS Integers, Sequences, FiniteSets, TLC

\* ------------------------------------------------------------------ bounds

\* The artifacts a download or a build can deliver are numbered 1..MaxVer.
MaxVer == 2

\* At most this many files fetched by urlretrieve are left behind in the
\* temporary directory (MinecraftForgeBase.install never moves its installer).
MaxTmpFiles == 1

\* get_selected() is asked for at most this many names.
MaxSelected == 2

\* A command is made of at most this many words and blanks, besides the
\* whitespace around it.
MaxTokens == 3

\* The lines of a server.properties file.
MaxLines == 2

\* ---------------------------------------------------------------- wrappers

VanillaNames ==
  {"vanilla 1.2", "vanilla 1.3", "vanilla 1.4", "vanilla 1.5",
   "vanilla 1.6", "vanilla 1.7", "vanilla 1.8"}

ForgeNames == {"minecraft forge 1.6", "minecraft forge 1.7"}

\* The wrappers ServerManager.__add_emsm_wrapper registers, by name().
Wrappers == VanillaNames \cup ForgeNames \cup {"bungeecord", "spigot latest"}

\* The class whose install() and translate_command() the method resolution
\* order selects for the wrapper called `name`.
BaseOf(name) ==
  IF name \in ForgeNames THEN "MinecraftForgeBase"
  ELSE IF name \in VanillaNames THEN "VanillaBase"
  ELSE IF name = "bungeecord" THEN "BungeeCordServerWrapper"
  ELSE IF name = "spigot latest" THEN "Spigot"
  ELSE "BaseServerWrapper"

Versions == 1..MaxVer

\* What is found at a path: nothing, a file or a directory; ver tells the
\* contents apart (0: an empty directory).
Absent == [kind |-> "absent", ver |-> 0]
File(v) == [kind |-> "file", ver |-> v]
Dir(v) == [kind |-> "dir", ver |-> v]

\* What install() of the wrapper leaves at self._server when it succeeds.
Installed(name, v) == IF BaseOf(name) = "MinecraftForgeBase" THEN Dir(v) ELSE File(v)

\* ------------------------------------------------------------------- state

VARIABLES
  self,       \* the name() of the wrapper object the calls are made on
  conf,       \* the keys of its section of server.conf
  fs,         \* the filesystem: server, cwd, tmp_files, tmp_dirs, build_dir
  worlds,     \* the worlds of the application: uses_self, online
  call,       \* the last call on the wrapper: op, env, pre, in_use, out, steps
  registry,   \* ServerManager._server: the items [name, inst], in order
  instances,  \* the number of wrapper instances created so far
  reg_call,   \* the last call on the ServerManager
  cmd_call,   \* the last call of translate_command
  adr_call    \* the last call of world_address

vars == <<self, conf, fs, worlds, call, registry, instances, reg_call, cmd_call, adr_call>>

\* ---------------------------------------------------------------- outcomes

Return == [exc |-> "none", server |-> "none", msg |-> "none"]

\* ServerInstallationFailure.__init__(self, server, msg=None): msg is str(msg).
ServerInstallationFailure(server, msg) ==
  [exc |-> "ServerInstallationFailure", server |-> server, msg |-> msg]

\* ServerIsOnlineError.__init__(self, server, msg=str()).
ServerIsOnlineError(server) ==
  [exc |-> "ServerIsOnlineError", server |-> server, msg |-> ""]

\* An exception of the standard library.
Builtin(exc) == [exc |-> exc, server |-> "none", msg |-> "none"]

Raised(out) == out.exc # "none"

\* The result of running a method: the filesystem it leaves, how it ended and
\* the effects it had, in order.
Res(f, out, steps) == [fs |-> f, out |-> out, steps |-> steps]

\* ------------------------------------------------------------- environment

\* What the world outside answers during one call: the download, the version
\* it delivers, whether the working directory is the install directory after
\* chdir, how the subprocess ends, whether the build left a spigot-*.jar.
Answers ==
  [fetch : {"ok", "URLError"}, ver : Versions, samefile : BOOLEAN,
   proc : {"exit 0", "exit 1", "OSError"}, built : BOOLEAN]

\* A method ends at the first step that fails, so the answers to the steps
\* after a failing one are never asked for: they are fixed here.
Env ==
  {e \in Answers :
     /\ e.fetch # "ok" => e.samefile
     /\ ~e.samefile => e.proc = "exit 0"
     /\ (e.fetch # "ok" \/ ~e.samefile \/ e.proc # "exit 0") => e.built}


\* ------------------------------------------------- BaseServerWrapper (fs)

\* is_installed(): os.path.exists(self._server).
is_installed(f) == f.server.kind # "absent"

\* is_online(): some world of the application runs this server and is online.
is_online(w) == \E x \in DOMAIN w : w[x].uses_self /\ w[x].online

\* urllib.request.urlretrieve(url) without a filename: the download is
\* written to a new file of the temporary directory, which stays there.
urlretrieve(f) == [f EXCEPT !.tmp_files = @ + 1]

\* shutil.move(tmp_path, self.server()) of a file urlretrieve delivered.
move_download(f, v) == [f EXCEPT !.tmp_files = @ - 1, !.server = File(v)]

\* ---------------------------------------------------------- VanillaBase

\* The try statement: download the jar and move it to self.server().
VanillaBase_download(name, f, e) ==
  IF e.fetch # "ok"
    THEN Res(f, ServerInstallationFailure(name, e.fetch), <<"urlretrieve">>)
    ELSE Res(move_download(urlretrieve(f), e.ver), Return, <<"urlretrieve", "move">>)

VanillaBase_install(name, f, e) ==
  IF is_installed(f) THEN Res(f, Return, <<>>)
  ELSE VanillaBase_download(name, f, e)

\* ---------------------------------------------- BungeeCordServerWrapper

\* The failure is built as ServerInstallationFailure(err): the error takes
\* the place of the server and msg is str(None).
BungeeCordServerWrapper_download(name, f, e) ==
  IF e.fetch # "ok"
    THEN Res(f, ServerInstallationFailure(e.fetch, "None"), <<"urlretrieve">>)
    ELSE Res(move_download(urlretrieve(f), e.ver), Return, <<"urlretrieve", "move">>)

\* As BungeeCordServerWrapper_install, without the is_installed() test.
BungeeCordServerWrapper_install_untested(name, f, e) ==
  BungeeCordServerWrapper_download(name, f, e)

BungeeCordServerWrapper_install(name, f, e) ==
  IF is_installed(f) THEN Res(f, Return, <<>>)
  ELSE BungeeCordServerWrapper_download(name, f, e)

\* ---------------------------------------------------- MinecraftForgeBase

\* The body of the outer try: download the installer, make the install
\* directory, change into it, run the installer.
MinecraftForgeBase_try(name, f, e) ==
  IF e.fetch # "ok"
    THEN Res(f, ServerInstallationFailure(e.fetch, "None"), <<"urlretrieve">>)
  ELSE
    LET f1 == urlretrieve(f)
        \* if os.path.exists(self.server()): shutil.rmtree(self.server())
        f2 == IF is_installed(f1) THEN [f1 EXCEPT !.server = Absent] ELSE f1
        \* os.makedirs(self.server()); os.chdir(self.server())
        f3 == [f2 EXCEPT !.server = Dir(0), !.cwd = "server"]
        s3 == <<"urlretrieve", "makedirs", "chdir">>
    IN IF ~e.samefile
         THEN Res(f3, ServerInstallationFailure(name, "Could not chdir"), s3)
       ELSE IF e.proc = "OSError"
         THEN Res(f3, ServerInstallationFailure(name, "OSError"), s3)
       ELSE IF e.proc # "exit 0"
         THEN Res(f3, ServerInstallationFailure(name, "ServerInstallationFailure"),
                  s3 \o <<"Popen">>)
       ELSE Res([f3 EXCEPT !.server = Dir(e.ver)], Return, s3 \o <<"Popen">>)

\* As MinecraftForgeBase_except, with the removal of the install directory
\* left out.
MinecraftForgeBase_except_keeps(r) == Res(r.fs, Return, r.steps)

\* The handler of the outer try: "Try to undo the installation."  It ends
\* without a raise, so control reaches `return None`.
MinecraftForgeBase_except(r) ==
  IF is_installed(r.fs)
    THEN Res([r.fs EXCEPT !.server = Absent], Return, r.steps \o <<"rmtree">>)
    ELSE Res(r.fs, Return, r.steps)

MinecraftForgeBase_install(name, f, e) ==
  IF is_installed(f) THEN Res(f, Return, <<>>)
  ELSE LET r == MinecraftForgeBase_try(name, f, e)
       IN IF Raised(r.out) THEN MinecraftForgeBase_except(r) ELSE r

\* ---------------------------------------------------------------- Spigot

\* build_dir(): the configured directory, or a new temporary one.
Spigot_build_dir(c, f) ==
  IF "build_dir" \in c THEN f ELSE [f EXCEPT !.tmp_dirs = @ + 1]

\* The body of the try: fetch BuildTools.jar into the build directory, run
\* it, move the first spigot-*.jar the build left to self.server().
Spigot_try(name, c, f, e) ==
  IF e.fetch # "ok"
    THEN Res(f, ServerInstallationFailure(name, e.fetch), <<"urlretrieve">>)
  ELSE
    LET f1 == IF "build_dir" \in c THEN [f EXCEPT !.build_dir = "tools"] ELSE f
    IN IF e.proc = "OSError"
         THEN Res(f1, Builtin("OSError"), <<"urlretrieve">>)
       ELSE IF e.proc # "exit 0"
         THEN Res(f1, ServerInstallationFailure(name, "Installer returned"),
                  <<"urlretrieve", "Popen">>)
       ELSE IF e.built
         THEN Res([f1 EXCEPT !.server = File(e.ver)], Return,
                  <<"urlretrieve", "Popen", "move">>)
       ELSE Res(f1, ServerInstallationFailure(name, "Could not find built"),
                <<"urlretrieve", "Popen">>)

\* As Spigot_finally, removing the build directory whether it is configured
\* or not.
Spigot_finally_always(c, r) ==
  Res([r.fs EXCEPT !.tmp_dirs = @ - 1, !.build_dir = "absent"], r.out,
      r.steps \o <<"rmtree">>)

\* The finally clause: the build directory is removed unless it is configured.
Spigot_finally(c, r) ==
  IF "build_dir" \notin c
    THEN Res([r.fs EXCEPT !.tmp_dirs = @ - 1], r.out, r.steps \o <<"rmtree">>)
    ELSE r

Spigot_install(name, c, f, e) ==
  IF is_installed(f) THEN Res(f, Return, <<>>)
  ELSE Spigot_finally(c, Spigot_try(name, c, Spigot_build_dir(c, f), e))

\* ------------------------------------------------- install and reinstall

\* self.install(), by the class of the wrapper.
install(name, c, f, e) ==
  CASE BaseOf(name) = "VanillaBase" -> VanillaBase_install(name, f, e)
    [] BaseOf(name) = "MinecraftForgeBase" -> MinecraftForgeBase_install(name, f, e)
    [] BaseOf(name) = "BungeeCordServerWrapper" -> BungeeCordServerWrapper_install(name, f, e)
    [] BaseOf(name) = "Spigot" -> Spigot_install(name, c, f, e)
    [] OTHER -> Res(f, Builtin("NotImplementedError"), <<>>)

\* The handler of reinstall's try.  Its first statement is the call
\* os.path.exists() without the path: the call raises TypeError, so neither
\* the removal of the partial installation nor shutil.move(tmp_server_path,
\* self._server) is reached, and the TypeError replaces the failure.
reinstall_except(r, backup) ==
  Res(r.fs, Builtin("TypeError"), r.steps \o <<"os.path.exists()">>)

\* As TemporaryDirectory_exit, leaving the directory where it is.
TemporaryDirectory_exit_kept(r) == r

\* Leaving `with tempfile.TemporaryDirectory()`: the directory is removed
\* with all it holds, however the block ended.
TemporaryDirectory_exit(r) ==
  Res([r.fs EXCEPT !.tmp_dirs = @ - 1], r.out, r.steps \o <<"cleanup">>)

\* The with statement: move the server aside, install, clean up.
reinstall_with(name, c, f, e) ==
    LET f1 == [f EXCEPT !.tmp_dirs = @ + 1]
        s1 == <<"TemporaryDirectory">>
    IN IF ~is_installed(f1)
         \* shutil.move(self._server, tmp_dir) of a path that does not exist
         THEN TemporaryDirectory_exit(Res(f1, Builtin("FileNotFoundError"), s1))
       ELSE
         LET backup == f1.server
             f2 == [f1 EXCEPT !.server = Absent]
             r == install(name, c, f2, e)
             r2 == Res(r.fs, r.out, s1 \o <<"move">> \o r.steps)
         IN TemporaryDirectory_exit(
              IF Raised(r.out) THEN reinstall_except(r2, backup) ELSE r2)

\* As BaseServerWrapper_reinstall, without the is_online() test.
BaseServerWrapper_reinstall_untested(name, c, f, w, e) == reinstall_with(name, c, f, e)

BaseServerWrapper_reinstall(name, c, f, w, e) ==
  IF is_online(w) THEN Res(f, ServerIsOnlineError(name), <<>>)
  ELSE reinstall_with(name, c, f, e)

\* ----------------------------------------------------------- ServerManager

\* The classes of __add_emsm_wrapper, in the order of its list.
WrapperClasses ==
  <<"Vanilla_1_2", "Vanilla_1_3", "Vanilla_1_4", "Vanilla_1_5", "Vanilla_1_6",
    "Vanilla_1_7", "Vanilla_1_8", "MinecraftForge_1_6", "MinecraftForge_1_7",
    "BungeeCordServerWrapper", "Spigot">>

\* Classes add() may be handed besides: two wrappers of an extension, a
\* second class that calls itself "bungeecord", MCServer, which defines no
\* name(), and a class that is no BaseServerWrapper.
OtherClasses == {"ExtensionA", "ExtensionB", "BungeeCordFork", "MCServer", "object"}

Classes == {WrapperClasses[i] : i \in DOMAIN WrapperClasses} \cup OtherClasses

\* server_class.name(); "" where name() is not defined.
class_name(cls) ==
  CASE cls = "Vanilla_1_2" -> "vanilla 1.2"
    [] cls = "Vanilla_1_3" -> "vanilla 1.3"
    [] cls = "Vanilla_1_4" -> "vanilla 1.4"
    [] cls = "Vanilla_1_5" -> "vanilla 1.5"
    [] cls = "Vanilla_1_6" -> "vanilla 1.6"
    [] cls = "Vanilla_1_7" -> "vanilla 1.7"
    [] cls = "Vanilla_1_8" -> "vanilla 1.8"
    [] cls = "MinecraftForge_1_6" -> "minecraft forge 1.6"
    [] cls = "MinecraftForge_1_7" -> "minecraft forge 1.7"
    [] cls = "BungeeCordServerWrapper" -> "bungeecord"
    [] cls = "Spigot" -> "spigot latest"
    [] cls = "ExtensionA" -> "extension a"
    [] cls = "ExtensionB" -> "extension b"
    [] cls = "BungeeCordFork" -> "bungeecord"
    [] OTHER -> ""

\* The dict self._server, as its items in insertion order; an instance is
\* known by the number of its creation, and None is 0.
None == 0

keys(d) == {d[i].name : i \in DOMAIN d}

values(d) == [i \in DOMAIN d |-> d[i].inst]

\* d.get(k)
dict_get(d, k) ==
  IF k \in keys(d) THEN d[CHOOSE i \in DOMAIN d : d[i].name = k].inst ELSE None

\* d[k] = v
dict_setitem(d, k, v) ==
  IF k \in keys(d)
    THEN [i \in DOMAIN d |-> IF d[i].name = k THEN [name |-> k, inst |-> v] ELSE d[i]]
    ELSE Append(d, [name |-> k, inst |-> v])

\* What a call that raised hands back: nothing.
NoValue == <<>>

\* The result of a method of the manager: the dict and the number of
\* instances it leaves, how it ended, the value it returned.
MRes(d, n, out, value) == [registry |-> d, instances |-> n, out |-> out, value |-> value]

\* As ServerManager_add, without the test for a registered name.
ServerManager_add_untested(d, n, cls) ==
  IF cls = "object" THEN MRes(d, n, Builtin("TypeError"), None)
  ELSE IF cls = "MCServer" THEN MRes(d, n, Builtin("NotImplementedError"), None)
  ELSE MRes(dict_setitem(d, class_name(cls), n + 1), n + 1, Return, None)

ServerManager_add(d, n, cls) ==
  IF cls = "object" THEN MRes(d, n, Builtin("TypeError"), None)
  \* server_class.name() of a class without name()
  ELSE IF cls = "MCServer" THEN MRes(d, n, Builtin("NotImplementedError"), None)
  ELSE IF class_name(cls) \in keys(d) THEN MRes(d, n, Builtin("ValueError"), None)
  \* self._server[server_class.name()] = server_class(self._app)
  ELSE MRes(dict_setitem(d, class_name(cls), n + 1), n + 1, Return, None)

\* __init__ and __add_emsm_wrapper: add() for each class of the list.
RECURSIVE add_emsm_wrapper(_, _)
add_emsm_wrapper(m, i) ==
  IF i > Len(WrapperClasses) THEN m
  ELSE add_emsm_wrapper(ServerManager_add(m.registry, m.instances, WrapperClasses[i]), i + 1)

ServerManager_init == add_emsm_wrapper(MRes(<<>>, 0, Return, None), 1)

\* As ServerManager_get, with d.setdefault(servername) for d.get(servername).
ServerManager_get_setdefault(d, n, servername) ==
  IF servername \in keys(d) THEN MRes(d, n, Return, dict_get(d, servername))
  ELSE MRes(dict_setitem(d, servername, None), n, Return, None)

ServerManager_get(d, n, servername) == MRes(d, n, Return, dict_get(d, servername))

\* As ServerManager_get_selected, with d.get(server) for d[server].
ServerManager_get_selected_lenient(d, n, selected_server, all_server) ==
  IF all_server THEN MRes(d, n, Return, values(d))
  ELSE MRes(d, n, Return,
            [i \in DOMAIN selected_server |-> dict_get(d, selected_server[i])])

\* get_selected(), for the values args.server and args.all_server of the
\* argument parser.
ServerManager_get_selected(d, n, selected_server, all_server) ==
  IF all_server THEN MRes(d, n, Return, values(d))
  ELSE IF \E i \in DOMAIN selected_server : selected_server[i] \notin keys(d)
    THEN MRes(d, n, Builtin("KeyError"), NoValue)
    ELSE MRes(d, n, Return,
              [i \in DOMAIN selected_server |-> dict_get(d, selected_server[i])])

ServerManager_get_all(d, n) == MRes(d, n, Return, values(d))

\* filter(pred, values): pred is None, and the instances that are true are
\* kept, which every wrapper object is, or pred is a function, given here
\* by the set of the instances it is true of.
ServerManager_get_by_pred(d, n, pred) ==
  IF pred = [none |-> TRUE] THEN MRes(d, n, Return, values(d))
  ELSE MRes(d, n, Return, SelectSeq(values(d), LAMBDA v : v \in pred.true_of))

ServerManager_get_names(d, n) ==
  MRes(d, n, Return, [i \in DOMAIN d |-> d[i].name])

\* ------------------------------------------------------ translate_command

\* A command is the sequence of its characters.
Whitespace == {" ", "\t", "\n"}

RECURSIVE lstrip(_)
lstrip(str) ==
  IF str # <<>> /\ Head(str) \in Whitespace THEN lstrip(Tail(str)) ELSE str

RECURSIVE rstrip(_)
rstrip(str) ==
  IF str # <<>> /\ str[Len(str)] \in Whitespace
    THEN rstrip(SubSeq(str, 1, Len(str) - 1)) ELSE str

\* str.strip()
strip(str) == rstrip(lstrip(str))

\* str.startswith(prefix)
startswith(str, prefix) ==
  Len(str) >= Len(prefix) /\ SubSeq(str, 1, Len(prefix)) = prefix

Say == <<"s", "a", "y", " ">>
Stop == <<"s", "t", "o", "p">>
Alert == <<"a", "l", "e", "r", "t", " ">>
End == <<"e", "n", "d">>

\* As BungeeCordServerWrapper_translate_command, without cmd.strip().
BungeeCordServerWrapper_translate_command_unstripped(cmd) ==
  IF startswith(cmd, Say) THEN Alert \o SubSeq(cmd, Len(Say) + 1, Len(cmd))
  ELSE IF cmd = Stop THEN End
  ELSE cmd

BungeeCordServerWrapper_translate_command(cmd) ==
  LET c == strip(cmd)
  IN IF startswith(c, Say) THEN Alert \o SubSeq(c, Len(Say) + 1, Len(c))
     ELSE IF c = Stop THEN End
     ELSE c

VanillaBase_translate_command(cmd) == cmd

MinecraftForgeBase_translate_command(cmd) == cmd

Spigot_translate_command(cmd) == cmd

\* self.translate_command(cmd), by the class of the wrapper.
translate_command(name, cmd) ==
  CASE BaseOf(name) = "VanillaBase" -> VanillaBase_translate_command(cmd)
    [] BaseOf(name) = "MinecraftForgeBase" -> MinecraftForgeBase_translate_command(cmd)
    [] BaseOf(name) = "BungeeCordServerWrapper" ->
         BungeeCordServerWrapper_translate_command(cmd)
    [] BaseOf(name) = "Spigot" -> Spigot_translate_command(cmd)

\* ---------------------------------------------------------- world_address

\* A value that may be None.
Null == [null |-> TRUE]
Val(v) == [val |-> v]

\* The result of world_address: how it ended and the pair (ip, port).
ARes(out, ip, port) == [out |-> out, value |-> [ip |-> ip, port |-> port]]

DigitChars == <<"0", "1", "2", "3", "4", "5", "6", "7", "8", "9">>

Digits == {DigitChars[i] : i \in DOMAIN DigitChars}

\* int(str) of a string of digits.
RECURSIVE int(_)
int(str) ==
  IF str = <<>> THEN 0
  ELSE 10 * int(SubSeq(str, 1, Len(str) - 1))
         + (CHOOSE i \in DOMAIN DigitChars : DigitChars[i] = str[Len(str)]) - 1

\* The regular expressions are run as their automata: each operator takes
\* the positions P a match may have reached in str and gives those it may
\* reach next.  A position is the index of the next character to read.

\* a literal
re_lit(str, P, lit) ==
  {p + Len(lit) : p \in {q \in P : q + Len(lit) - 1 <= Len(str)
                                   /\ SubSeq(str, q, q + Len(lit) - 1) = lit}}

\* \s*  (it takes newlines as well as blanks)
RECURSIVE ws_end(_, _)
ws_end(str, p) ==
  IF p <= Len(str) /\ str[p] \in Whitespace THEN ws_end(str, p + 1) ELSE p

re_ws(str, P) == UNION {p..ws_end(str, p) : p \in P}

\* \d{lo,hi}
RECURSIVE digits_end(_, _)
digits_end(str, p) ==
  IF p <= Len(str) /\ str[p] \in Digits THEN digits_end(str, p + 1) ELSE p

re_digits(str, P, lo, hi) ==
  UNION {{q \in (p + lo)..(p + hi) : q <= digits_end(str, p)} : p \in P}

\* \d{1,3}\.\d{1,3}\.\d{1,3}\.\d{1,3}
re_quad(str, P) ==
  LET d(Q) == re_digits(str, Q, 1, 3)
      dot(Q) == re_lit(str, Q, <<".">>)
  IN d(dot(d(dot(d(dot(d(P)))))))

\* $ under re.MULTILINE: the end of the string or the place before a newline
re_eol(str, P) == {p \in P : p = Len(str) + 1 \/ str[p] = "\n"}

\* ^ under re.MULTILINE: the start of the string or the place after a newline
re_bol(str) == {p \in 1..(Len(str) + 1) : p = 1 \/ str[p - 1] = "\n"}

Max(S) == CHOOSE x \in S : \A y \in S : y <= x
Min(S) == CHOOSE x \in S : \A y \in S : x <= y

ServerPort == <<"s", "e", "r", "v", "e", "r", "-", "p", "o", "r", "t">>
ServerIp == <<"s", "e", "r", "v", "e", "r", "-", "i", "p">>

\* The spans <<a, b>> of group 1 in the matches of
\* ^key\s*=\s*(group)\s*$ that start at p; group is "port" or "ip".
line_groups(str, p, key, group) ==
  LET A == re_ws(str, re_lit(str, re_ws(str, re_lit(str, {p}, key)), <<"=">>))
      G(a) == IF group = "port" THEN re_digits(str, {a}, 1, 5) ELSE re_quad(str, {a})
  IN UNION {{<<a, b>> : b \in {q \in G(a) : re_eol(str, re_ws(str, {q})) # {}}} :
              a \in A}

\* re.findall(regex, conf, re.MULTILINE)[0] where there is a match: group 1
\* of the leftmost match, the quantifiers taking all they can; <<>> where
\* there is none.
findall_first(str, key, group) ==
  LET starts == {p \in re_bol(str) : line_groups(str, p, key, group) # {}}
  IN IF starts = {} THEN <<>>
     ELSE LET spans == line_groups(str, Min(starts), key, group)
              a == Max({sp[1] : sp \in spans})
              b == Max({sp[2] : sp \in {t \in spans : t[1] = a}})
          IN <<SubSeq(str, a, b - 1)>>

Localhost == <<"l", "o", "c", "a", "l", "h", "o", "s", "t">>

\* VanillaBase.world_address and Spigot.world_address, which is a copy of
\* it: file is the state of server.properties in the directory of the world.
VanillaBase_world_address(file) ==
  IF file.state = "missing" THEN ARes(Return, Null, Null)
  ELSE
    LET port == findall_first(file.text, ServerPort, "port")
        ip == findall_first(file.text, ServerIp, "ip")
    IN ARes(Return,
            IF ip # <<>> THEN Val(ip[1]) ELSE Val(Localhost),
            IF port # <<>> THEN Val(int(port[1])) ELSE Null)

Spigot_world_address(file) == VanillaBase_world_address(file)

\* str.split(sep) for a separator of one character
RECURSIVE split(_, _)
split(str, sep) ==
  IF \A k \in DOMAIN str : str[k] # sep THEN <<str>>
  ELSE LET k == Min({i \in DOMAIN str : str[i] = sep})
       IN <<SubSeq(str, 1, k - 1)>> \o split(SubSeq(str, k + 1, Len(str)), sep)

\* The else branch of the inner try: ip and port are the two parts of host.
BungeeCordServerWrapper_address(ip0, port0) ==
  LET ip1 == strip(ip0)
      \* re.match looks for the pattern at the start of ip and not to its end
      ip2 == IF re_quad(ip1, {1}) = {} THEN Null ELSE Val(ip1)
      ip3 == IF ip2 = Val(<<"0", ".", "0", ".", "0", ".", "0">>)
               THEN Val(Localhost) ELSE ip2
      port1 == strip(port0)
      port2 == IF Len(port1) + 1 \in re_digits(port1, {1}, 1, 5)
                 THEN Val(int(port1)) ELSE Null
  IN ARes(Return, ip3, port2)

\* BungeeCordServerWrapper.world_address: file is the state of config.yml in
\* the directory of the world.  yaml.load stands in the try whose handler
\* takes OSError and IOError only, so a yaml.YAMLError leaves the method.
BungeeCordServerWrapper_world_address(file) ==
  IF file.state = "missing" THEN ARes(Return, Null, Null)
  ELSE IF file.state = "unparseable" THEN ARes(Builtin("YAMLError"), Null, Null)
  \* conf["listeners"][0]["host"] and adr.split(":") under the bare except
  ELSE IF file.state # "host" THEN ARes(Return, Null, Null)
  ELSE IF Len(split(file.host, ":")) # 2 THEN ARes(Return, Null, Null)
  ELSE BungeeCordServerWrapper_address(split(file.host, ":")[1], split(file.host, ":")[2])

\* self.world_address(world), by the class of the wrapper; the Forge
\* wrappers take it from the Vanilla class they inherit second.
world_address(name, file) ==
  CASE BaseOf(name) \in {"VanillaBase", "MinecraftForgeBase"} -> VanillaBase_world_address(file)
    [] BaseOf(name) = "Spigot" -> Spigot_world_address(file)
    [] BaseOf(name) = "BungeeCordServerWrapper" -> BungeeCordServerWrapper_world_address(file)
    [] OTHER -> ARes(Builtin("NotImplementedError"), Null, Null)

\* ------------------------------------------------------------- MCServer

\* The methods BaseServerWrapper declares abstract.  MCServer overrides none
\* of them, so these are the methods a call on MCServer runs.  A result is
\* how the call ended and the value it returned, if it returned.
CRes(out, value) == [out |-> out, value |-> value]

BaseServerWrapper_name == CRes(Builtin("NotImplementedError"), Null)

\* __init__ formats its log message with self.name() before anything else.
BaseServerWrapper_init(name) ==
  IF name = "BaseServerWrapper" THEN CRes(Builtin("RuntimeError"), Null)
  ELSE IF BaseOf(name) = "BaseServerWrapper" THEN BaseServerWrapper_name
  ELSE CRes(Return, Null)

BaseServerWrapper_default_url == CRes(Builtin("NotImplementedError"), Null)

BaseServerWrapper_default_start_cmd == CRes(Builtin("NotImplementedError"), Null)

\* The exception is made and returned; there is no raise.
BaseServerWrapper_translate_command(cmd) == CRes(Return, Val("NotImplementedError()"))

\* log_path is declared with the parameters (cls, self) and without
\* @classmethod: the object is bound to cls, and a call with no argument, the
\* way the wrappers that override it are called, leaves self missing.
BaseServerWrapper_log_path(args) ==
  IF args = 0 THEN CRes(Builtin("TypeError"), Null)
  ELSE IF args = 1 THEN CRes(Builtin("NotImplementedError"), Null)
  ELSE CRes(Builtin("TypeError"), Null)

BaseServerWrapper_log_start_re == CRes(Builtin("NotImplementedError"), Null)

BaseServerWrapper_log_error_re == CRes(Builtin("NotImplementedError"), Null)

\* ----------------------------------------------------------------- worlds

Worlds == {"w1", "w2"}

\* --------------------------------------------------------------- actions

\* The record of a call: the method, what the environment answered, the
\* filesystem it started from, whether an online world used the server
\* then, how it ended, its effects.
Called(op, e, r) ==
  [op |-> op, env |-> e, pre |-> fs,
   in_use |-> \E x \in Worlds : worlds[x].uses_self /\ worlds[x].online,
   out |-> r.out, steps |-> r.steps]

\* A world of the application is started or stopped.
WorldStart(x) ==
  /\ ~worlds[x].online
  /\ worlds' = [worlds EXCEPT ![x].online = TRUE]
  /\ UNCHANGED <<self, conf, fs, call, registry, instances, reg_call, cmd_call, adr_call>>

WorldStop(x) ==
  /\ worlds[x].online
  /\ worlds' = [worlds EXCEPT ![x].online = FALSE]
  /\ UNCHANGED <<self, conf, fs, call, registry, instances, reg_call, cmd_call, adr_call>>

Install(e) ==
  LET r == install(self, conf, fs, e)
  IN /\ r.fs.tmp_files <= MaxTmpFiles
     /\ fs' = r.fs
     /\ call' = Called("install", e, r)
     /\ UNCHANGED <<self, conf, worlds, registry, instances, reg_call, cmd_call, adr_call>>

Reinstall(e) ==
  LET r == BaseServerWrapper_reinstall(self, conf, fs, worlds, e)
  IN /\ r.fs.tmp_files <= MaxTmpFiles
     /\ fs' = r.fs
     /\ call' = Called("reinstall", e, r)
     /\ UNCHANGED <<self, conf, worlds, registry, instances, reg_call, cmd_call, adr_call>>

InitWrapper ==
  /\ self \in Wrappers
  \* build_dir is the one key of the section the methods modelled here read,
  \* and only Spigot reads it
  /\ conf \in IF BaseOf(self) = "Spigot" THEN SUBSET {"build_dir"} ELSE {{}}
  /\ \E n \in {Absent} \cup {Installed(self, v) : v \in Versions} :
       fs = [server |-> n, cwd |-> "start", tmp_files |-> 0, tmp_dirs |-> 0,
             build_dir |-> "empty"]
  \* world w1 is configured to run this server and world w2 another one
  /\ worlds \in {w \in [Worlds -> [uses_self : BOOLEAN, online : BOOLEAN]] :
                   \A x \in Worlds : w[x].uses_self = (x = "w1")}
  /\ call = [op |-> "none"]

\* The manager as its constructor leaves it.
InitManager ==
  /\ registry = ServerManager_init.registry
  /\ instances = ServerManager_init.instances
  /\ reg_call = [op |-> "none"]

Init ==
  /\ InitWrapper
  /\ InitManager
  /\ cmd_call = [op |-> "none"]
  /\ adr_call = [op |-> "none"]

Next ==
  \/ \E e \in Env : Install(e)
  \/ \E e \in Env : Reinstall(e)
  \/ \E x \in Worlds : WorldStart(x)
  \/ \E x \in Worlds : WorldStop(x)

Spec == Init /\ [][Next]_vars


\* -------------------------------------------------- ServerManager: actions

\* The names get_selected() and get() are asked for: registered ones, one of
\* an extension and one no wrapper has.
AskedNames == {"vanilla 1.8", "bungeecord", "extension a", "no such server"}

Selections == UNION {[1..k -> AskedNames] : k \in 0..MaxSelected}

MCalled(op, arg, all, r) ==
  [op |-> op, arg |-> arg, all |-> all, pre |-> registry, pre_instances |-> instances,
   out |-> r.out, value |-> r.value]

Add(cls) ==
  LET r == ServerManager_add(registry, instances, cls)
  IN /\ registry' = r.registry
     /\ instances' = r.instances
     /\ reg_call' = MCalled("add", cls, FALSE, r)
     /\ UNCHANGED <<self, conf, fs, worlds, call, cmd_call, adr_call>>

Get(servername) ==
  LET r == ServerManager_get(registry, instances, servername)
  IN /\ registry' = r.registry
     /\ instances' = r.instances
     /\ reg_call' = MCalled("get", servername, FALSE, r)
     /\ UNCHANGED <<self, conf, fs, worlds, call, cmd_call, adr_call>>

GetSelected(selected_server, all_server) ==
  LET r == ServerManager_get_selected(registry, instances, selected_server, all_server)
  IN /\ registry' = r.registry
     /\ instances' = r.instances
     /\ reg_call' = MCalled("get_selected", selected_server, all_server, r)
     /\ UNCHANGED <<self, conf, fs, worlds, call, cmd_call, adr_call>>

\* A wrapper nothing is called on.
IdleWrapper ==
  /\ self = "vanilla 1.8"
  /\ conf = {}
  /\ fs = [server |-> Absent, cwd |-> "start", tmp_files |-> 0, tmp_dirs |-> 0,
           build_dir |-> "empty"]
  /\ worlds = [x \in Worlds |-> [uses_self |-> x = "w1", online |-> FALSE]]
  /\ call = [op |-> "none"]

InitRegistry ==
  /\ IdleWrapper
  /\ InitManager
  /\ cmd_call = [op |-> "none"]
  /\ adr_call = [op |-> "none"]

NextRegistry ==
  \/ \E cls \in Classes : Add(cls)
  \/ \E servername \in AskedNames : Get(servername)
  \/ \E sel \in Selections : \E all \in BOOLEAN : GetSelected(sel, all)

SpecRegistry == InitRegistry /\ [][NextRegistry]_vars

\* ---------------------------------------------- translate_command: actions

Tokens == {<<" ">>, <<"s", "a", "y">>, <<"s", "t", "o", "p">>, <<"h", "i">>}

Pads == {<<>>, <<" ">>, <<"\t">>, <<"\n", " ">>}

RECURSIVE Flatten(_)
Flatten(seqs) == IF seqs = <<>> THEN <<>> ELSE Head(seqs) \o Flatten(Tail(seqs))

Bodies == {Flatten(t) : t \in UNION {[1..k -> Tokens] : k \in 0..MaxTokens}}

Commands == {a \o b \o c : a \in Pads, b \in Bodies, c \in Pads}

TranslateCommand ==
  /\ cmd_call.op = "none"
  /\ cmd_call' = [op |-> "translate_command", cmd |-> cmd_call.cmd,
                  out |-> translate_command(self, cmd_call.cmd)]
  /\ UNCHANGED <<self, conf, fs, worlds, call, registry, instances, reg_call, adr_call>>

InitCommand ==
  /\ self \in Wrappers
  /\ conf = {}
  /\ fs = [server |-> Absent, cwd |-> "start", tmp_files |-> 0, tmp_dirs |-> 0,
           build_dir |-> "empty"]
  /\ worlds = [x \in Worlds |-> [uses_self |-> x = "w1", online |-> FALSE]]
  /\ call = [op |-> "none"]
  /\ InitManager
  /\ \E cmd \in Commands : cmd_call = [op |-> "none", cmd |-> cmd]
  /\ adr_call = [op |-> "none"]

NextCommand == TranslateCommand

SpecCommand == InitCommand /\ [][NextCommand]_vars

\* ------------------------------------------------ world_address: actions

\* Lines a server.properties may hold: entries that are valid, that have
\* blanks, a value too long, no value, a comment sign or text after the
\* value; values on a line of their own; another key; an empty line.
PropertyLines ==
  {<<"s", "e", "r", "v", "e", "r", "-", "p", "o", "r", "t", "=", "2", "5", "5", "6", "5">>,
   <<"s", "e", "r", "v", "e", "r", "-", "p", "o", "r", "t", " ", "=", " ", "8", "0", " ">>,
   <<"s", "e", "r", "v", "e", "r", "-", "p", "o", "r", "t", "=", "1", "2", "3", "4", "5", "6">>,
   <<"s", "e", "r", "v", "e", "r", "-", "p", "o", "r", "t", "=">>,
   <<"#", "s", "e", "r", "v", "e", "r", "-", "p", "o", "r", "t", "=", "2", "5", "5", "6", "5">>,
   <<"s", "e", "r", "v", "e", "r", "-", "p", "o", "r", "t", "=", "8", "0", " ", "x">>,
   <<"s", "e", "r", "v", "e", "r", "-", "i", "p", "=", "1", "9", "2", ".", "1", "6", "8", ".", "1", ".", "5">>,
   <<"s", "e", "r", "v", "e", "r", "-", "i", "p", "=">>,
   <<"s", "e", "r", "v", "e", "r", "-", "i", "p", "=", "1", ".", "2", ".", "3">>,
   <<"#", "s", "e", "r", "v", "e", "r", "-", "i", "p", "=", "1", ".", "2", ".", "3", ".", "4">>,
   <<"2", "5", "5", "6", "5">>,
   <<"1", "9", "2", ".", "1", "6", "8", ".", "1", ".", "5">>,
   <<"m", "o", "t", "d", "=", "h", "i">>,
   <<>>}

Join(seqs, sep) ==
  IF seqs = <<>> THEN <<>>
  ELSE Head(seqs) \o Flatten([k \in 1..(Len(seqs) - 1) |-> sep \o seqs[k + 1]])

\* server.properties: not readable, or a text of up to MaxLines lines.
PropertyFiles ==
  {[state |-> "missing"]}
    \cup {[state |-> "text", text |-> Join(l, <<"\n">>)] :
            l \in UNION {[1..k -> PropertyLines] : k \in 1..MaxLines}}

HostIps ==
  {<<"1", "9", "2", ".", "1", "6", "8", ".", "1", ".", "5">>,
   <<"0", ".", "0", ".", "0", ".", "0">>,
   <<" ", "0", ".", "0", ".", "0", ".", "0", " ">>,
   <<"1", ".", "2", ".", "3">>,
   <<"1", ".", "2", ".", "3", ".", "4", "x">>,
   <<"x", "1", ".", "2", ".", "3", ".", "4">>,
   <<>>}

HostPorts ==
  {<<"2", "5", "5", "7", "7">>,
   <<" ", "8", "0", " ">>,
   <<"1", "2", "3", "4", "5", "6">>,
   <<"8", "o">>,
   <<>>}

\* The host of the first listener: ip:port, or a string with no colon or two.
Hosts ==
  {i \o <<":">> \o q : i \in HostIps, q \in HostPorts}
    \cup {<<"1", ".", "2", ".", "3", ".", "4">>,
          <<"1", ".", "2", ".", "3", ".", "4", ":", "8", "0", ":", "8", "0">>}

\* config.yml: not readable, not YAML, a document without the path
\* listeners / 0 / host to a string, or a document with it.
ConfigFiles ==
  {[state |-> st] : st \in {"missing", "unparseable", "scalar", "no listeners",
                            "empty listeners", "no host", "host not str"}}
    \cup {[state |-> "host", host |-> h] : h \in Hosts}

\* The configuration files the wrapper called `name` may find in a world.
Files(name) ==
  IF BaseOf(name) = "BungeeCordServerWrapper" THEN ConfigFiles ELSE PropertyFiles

\* The application asks the wrapper for the address of a world.
WorldAddress ==
  /\ adr_call.op = "none"
  /\ LET r == world_address(self, adr_call.file)
     IN adr_call' = [op |-> "world_address", file |-> adr_call.file,
                     out |-> r.out, value |-> r.value]
  /\ UNCHANGED <<self, conf, fs, worlds, call, registry, instances, reg_call, cmd_call>>

InitAddress ==
  /\ self \in Wrappers
  /\ conf = {}
  /\ fs = [server |-> Absent, cwd |-> "start", tmp_files |-> 0, tmp_dirs |-> 0,
           build_dir |-> "empty"]
  /\ worlds = [x \in Worlds |-> [uses_self |-> x = "w1", online |-> FALSE]]
  /\ call = [op |-> "none"]
  /\ InitManager
  /\ cmd_call = [op |-> "none"]
  /\ \E file \in Files(self) : adr_call = [op |-> "none", file |-> file]

NextAddress == WorldAddress

SpecAddress == InitAddress /\ [][NextAddress]_vars

\* ----------------------------------------------------- MCServer: actions

\* The methods of the class MCServer, called one at a time.  The record of
\* a call: the method, its argument, how it ended, what it returned.
ACalled(op, arg, r) == [op |-> op, arg |-> arg, out |-> r.out, value |-> r.value]

Construct ==
  /\ call.op = "none"
  /\ call' = ACalled("__init__", Null, BaseServerWrapper_init(self))
  /\ UNCHANGED <<self, conf, fs, worlds, registry, instances, reg_call, cmd_call, adr_call>>

AbstractName ==
  /\ call.op = "none"
  /\ call' = ACalled("name", Null, BaseServerWrapper_name)
  /\ UNCHANGED <<self, conf, fs, worlds, registry, instances, reg_call, cmd_call, adr_call>>

AbstractDefaultUrl ==
  /\ call.op = "none"
  /\ call' = ACalled("default_url", Null, BaseServerWrapper_default_url)
  /\ UNCHANGED <<self, conf, fs, worlds, registry, instances, reg_call, cmd_call, adr_call>>

AbstractInstall(e) ==
  LET r == install(self, conf, fs, e)
  IN /\ call.op = "none"
     /\ fs' = r.fs
     /\ call' = ACalled("install", e, CRes(r.out, Null))
     /\ UNCHANGED <<self, conf, worlds, registry, instances, reg_call, cmd_call, adr_call>>

AbstractDefaultStartCmd ==
  /\ call.op = "none"
  /\ call' = ACalled("default_start_cmd", Null, BaseServerWrapper_default_start_cmd)
  /\ UNCHANGED <<self, conf, fs, worlds, registry, instances, reg_call, cmd_call, adr_call>>

AbstractTranslateCommand(cmd) ==
  /\ call.op = "none"
  /\ call' = ACalled("translate_command", cmd, BaseServerWrapper_translate_command(cmd))
  /\ UNCHANGED <<self, conf, fs, worlds, registry, instances, reg_call, cmd_call, adr_call>>

\* log_path() as the worlds call it, or with one argument.
AbstractLogPath(args) ==
  /\ call.op = "none"
  /\ call' = ACalled("log_path", args, BaseServerWrapper_log_path(args))
  /\ UNCHANGED <<self, conf, fs, worlds, registry, instances, reg_call, cmd_call, adr_call>>

AbstractLogStartRe ==
  /\ call.op = "none"
  /\ call' = ACalled("log_start_re", Null, BaseServerWrapper_log_start_re)
  /\ UNCHANGED <<self, conf, fs, worlds, registry, instances, reg_call, cmd_call, adr_call>>

AbstractLogErrorRe ==
  /\ call.op = "none"
  /\ call' = ACalled("log_error_re", Null, BaseServerWrapper_log_error_re)
  /\ UNCHANGED <<self, conf, fs, worlds, registry, instances, reg_call, cmd_call, adr_call>>

AbstractWorldAddress(file) ==
  /\ call.op = "none"
  /\ call' = ACalled("world_address", file, world_address(self, file))
  /\ UNCHANGED <<self, conf, fs, worlds, registry, instances, reg_call, cmd_call, adr_call>>

InitAbstract ==
  /\ self = "MCServer"
  /\ conf = {}
  /\ fs = [server |-> Absent, cwd |-> "start", tmp_files |-> 0, tmp_dirs |-> 0,
           build_dir |-> "empty"]
  /\ worlds = [x \in Worlds |-> [uses_self |-> x = "w1", online |-> FALSE]]
  /\ call = [op |-> "none"]
  /\ InitManager
  /\ cmd_call = [op |-> "none"]
  /\ adr_call = [op |-> "none"]

NextAbstract ==
  \/ Construct
  \/ AbstractName
  \/ AbstractDefaultUrl
  \/ \E e \in Env : AbstractInstall(e)
  \/ AbstractDefaultStartCmd
  \/ \E cmd \in Commands : AbstractTranslateCommand(cmd)
  \/ \E args \in 0..1 : AbstractLogPath(args)
  \/ AbstractLogStartRe
  \/ AbstractLogErrorRe
  \/ \E file \in ConfigFiles \cup PropertyFiles : AbstractWorldAddress(file)

SpecAbstract == InitAbstract /\ [][NextAbstract]_vars

\* ----------------------------------------- ServerManager and a wrapper
\* ------------------------------------------------------------- actions

GetAll ==
  LET r == ServerManager_get_all(registry, instances)
  IN /\ registry' = r.registry
     /\ instances' = r.instances
     /\ reg_call' = MCalled("get_all", None, FALSE, r)
     /\ UNCHANGED <<self, conf, fs, worlds, call, cmd_call, adr_call>>

GetByPred(pred) ==
  LET r == ServerManager_get_by_pred(registry, instances, pred)
  IN /\ registry' = r.registry
     /\ instances' = r.instances
     /\ reg_call' = MCalled("get_by_pred", pred, FALSE, r)
     /\ UNCHANGED <<self, conf, fs, worlds, call, cmd_call, adr_call>>

GetNames ==
  LET r == ServerManager_get_names(registry, instances)
  IN /\ registry' = r.registry
     /\ instances' = r.instances
     /\ reg_call' = MCalled("get_names", None, FALSE, r)
     /\ UNCHANGED <<self, conf, fs, worlds, call, cmd_call, adr_call>>

\* is_online() of the wrapper.
IsOnline ==
  /\ call' = [op |-> "is_online", value |-> is_online(worlds)]
  /\ UNCHANGED <<self, conf, fs, worlds, registry, instances, reg_call, cmd_call, adr_call>>

\* world_address(world) of the wrapper, for a world with that file.
AskWorldAddress(file) ==
  /\ LET r == world_address(self, file)
     IN adr_call' = [op |-> "world_address", file |-> file,
                     out |-> r.out, value |-> r.value]
  /\ UNCHANGED <<self, conf, fs, worlds, call, registry, instances, reg_call, cmd_call>>

\* The classes handed to add(): one of an extension, one that is registered,
\* one that is no wrapper.
FrameClasses == {"ExtensionA", "Spigot", "object"}

\* None, a function true of nothing and one true of the first instance.
Preds == {[none |-> TRUE], [true_of |-> {}], [true_of |-> {1}]}

\* The download works or it does not.
FrameEnv == {e \in Env : e.ver = 1 /\ e.samefile /\ e.proc = "exit 0" /\ e.built}

FrameFiles ==
  {[state |-> "missing"],
   [state |-> "text", text |-> Join(<<ServerPort \o <<"=", "8", "0">>>>, <<"\n">>)]}

\* The manager as its constructor leaves it and one of its wrappers, not
\* installed yet.
InitFrame ==
  /\ IdleWrapper
  /\ InitManager
  /\ cmd_call = [op |-> "none"]
  /\ adr_call = [op |-> "none"]

NextFrame ==
  \/ \E cls \in FrameClasses : Add(cls)
  \/ \E servername \in {"vanilla 1.8", "no such server"} : Get(servername)
  \/ GetAll
  \/ \E pred \in Preds : GetByPred(pred)
  \/ \E sel \in {x \in Selections : Len(x) <= 1} : GetSelected(sel, FALSE)
  \/ GetSelected(<<>>, TRUE)
  \/ GetNames
  \/ \E e \in FrameEnv : Install(e)
  \/ \E e \in FrameEnv : Reinstall(e)
  \/ IsOnline
  \/ \E file \in FrameFiles : AskWorldAddress(file)
  \/ WorldStart("w1")
  \/ WorldStop("w1")

SpecFrame == InitFrame /\ [][NextFrame]_vars

\* ------------------------------------------------ install and reinstall:
\* ---------------------------------------------------------- properties

Steps == {call.steps[i] : i \in DOMAIN call.steps}

\* Every step the wrapper's install() takes succeeds under the answers e.
StepsSucceed(name, e) ==
  /\ e.fetch = "ok"
  /\ BaseOf(name) = "MinecraftForgeBase" => e.samefile /\ e.proc = "exit 0"
  /\ BaseOf(name) = "Spigot" => e.proc = "exit 0" /\ e.built

\* An acquisition step fails: the fetch, the installer or the build ending
\* non-zero, the working directory check, no built artifact.
AcquisitionFails(name, e) ==
  \/ e.fetch # "ok"
  \/ BaseOf(name) = "MinecraftForgeBase" /\ (~e.samefile \/ e.proc = "exit 1")
  \/ BaseOf(name) = "Spigot" /\ (e.proc = "exit 1" \/ (e.proc = "exit 0" /\ ~e.built))

\* C1: after reinstall() of an installed server that is not online has ended,
\* by a return or a raise, the install path holds one installation, the new
\* one or the prior one; it is never empty.
ReinstallLeavesOneInstallation ==
  (call.op = "reinstall" /\ call.pre.server # Absent /\ ~call.in_use)
    => fs.server \in {call.pre.server} \cup {Installed(self, v) : v \in Versions}

\* C2: when install() fails during reinstall() of an installed server that
\* is not online, the install path holds the prior installation, same kind
\* and same contents, once reinstall() has ended.
ReinstallRestoresOnFailure ==
  (/\ call.op = "reinstall" /\ call.pre.server # Absent /\ ~call.in_use
   /\ ~StepsSucceed(self, call.env))
    => fs.server = call.pre.server

\* C3: reinstall() of a server that an online world uses raises
\* ServerIsOnlineError, takes no step and leaves the filesystem as it was.
ReinstallOnlineRefused ==
  (call.op = "reinstall" /\ call.in_use)
    => /\ call.out = ServerIsOnlineError(self)
       /\ call.steps = <<>>
       /\ fs = call.pre

ReinstallOnlineWitness ==
  /\ call.op = "reinstall" /\ call.in_use
  /\ call.pre.server # Absent
  /\ call.out.exc = "ServerIsOnlineError"

\* C4: whenever an acquisition step of install() fails, install() ends by
\* raising ServerInstallationFailure; it does not return.
InstallFailureRaises ==
  (/\ call.op = "install" /\ call.pre.server = Absent
   /\ AcquisitionFails(self, call.env))
    => call.out.exc = "ServerInstallationFailure"

\* C5: whenever install() returns without raising, the install path exists.
InstallReturnImpliesInstalled ==
  (call.op = "install" /\ call.out = Return) => fs.server # Absent

\* C6: install() called while the install path exists returns without
\* raising, fetches nothing, starts no subprocess and leaves the filesystem
\* as it was; a further install() changes nothing either.
InstallWhenInstalledIsNoOp ==
  (call.op = "install" /\ call.pre.server # Absent)
    => /\ call.out = Return
       /\ call.steps = <<>>
       /\ fs = call.pre
       /\ \A e \in Env : install(self, conf, fs, e) = Res(fs, Return, <<>>)

InstallWhenInstalledWitness ==
  /\ call.op = "install" /\ call.pre.server # Absent
  /\ self = "bungeecord"
  /\ call.env.fetch = "ok"

\* C7: when install() starts with the install path absent and a step fails,
\* the install path is absent once install() has ended; the direct-download
\* wrappers never move anything there.
FailedInstallLeavesNothing ==
  (/\ call.op = "install" /\ call.pre.server = Absent
   /\ ~StepsSucceed(self, call.env))
    => /\ fs.server = Absent
       /\ BaseOf(self) \in {"VanillaBase", "BungeeCordServerWrapper"}
            => "move" \notin Steps

\* The installer of a Forge wrapper fails after the install directory was made.
FailedInstallWitness ==
  /\ call.op = "install" /\ call.pre.server = Absent
  /\ self \in ForgeNames
  /\ "makedirs" \in Steps
  /\ call.env.proc = "exit 1"
  /\ fs.server = Absent

\* C14: the temporary directory reinstall() makes for the backup is gone
\* once reinstall() has ended, however it ended: the install succeeded, the
\* install failed, the handler of the failure failed itself.
ReinstallRemovesBackupDir ==
  call.op = "reinstall" =>
    /\ fs.tmp_dirs = call.pre.tmp_dirs
    /\ "TemporaryDirectory" \in Steps => call.steps[Len(call.steps)] = "cleanup"

\* reinstall() made the directory and ended with the TypeError of its handler.
ReinstallRemovesBackupDirWitness ==
  /\ call.op = "reinstall" /\ ~call.in_use
  /\ call.pre.server # Absent
  /\ "TemporaryDirectory" \in Steps
  /\ call.out.exc = "TypeError"
  /\ fs.tmp_dirs = 0

\* C15: when the download fails during install() of a Vanilla wrapper or of
\* BungeeCord, install() raises ServerInstallationFailure with the wrapper
\* as its server and the error as its message.
InstallFailureNamesWrapper ==
  (/\ call.op = "install" /\ call.pre.server = Absent
   /\ BaseOf(self) \in {"VanillaBase", "BungeeCordServerWrapper"}
   /\ call.env.fetch # "ok")
    => call.out = ServerInstallationFailure(self, call.env.fetch)

\* C16: after install() of Spigot has run, whether it succeeded, the fetch
\* failed, the build ended non-zero or left no jar, the build directory has
\* been removed if no build_dir is configured, and is still there if one is.
SpigotBuildDirRemovedIffTemporary ==
  (call.op = "install" /\ BaseOf(self) = "Spigot" /\ call.pre.server = Absent) =>
    IF "build_dir" \notin conf
      THEN "rmtree" \in Steps /\ fs.tmp_dirs = call.pre.tmp_dirs
      ELSE "rmtree" \notin Steps /\ fs.build_dir # "absent"
             /\ fs.tmp_dirs = call.pre.tmp_dirs

\* The build in a configured directory ended non-zero and the directory, with
\* BuildTools.jar in it, is still there.
SpigotBuildDirWitness ==
  /\ call.op = "install" /\ self = "spigot latest" /\ call.pre.server = Absent
  /\ "build_dir" \in conf
  /\ call.env.proc = "exit 1"
  /\ fs.build_dir = "tools"


\* ------------------------------------------------ ServerManager: properties

\* C8: add() of a class whose name is registered raises ValueError and
\* leaves the dict as it was, with no instance created; and no name has two
\* entries.
AddDuplicateRejected ==
  /\ (/\ reg_call.op = "add"
      /\ \E i \in DOMAIN reg_call.pre : reg_call.pre[i].name = class_name(reg_call.arg))
       => /\ reg_call.out.exc = "ValueError"
          /\ registry = reg_call.pre
          /\ instances = reg_call.pre_instances
  /\ \A i, j \in DOMAIN registry :
       (registry[i].name = registry[j].name \/ registry[i].inst = registry[j].inst)
         => i = j

AddDuplicateWitness ==
  /\ reg_call.op = "add"
  /\ reg_call.arg = "BungeeCordFork"
  /\ reg_call.out.exc = "ValueError"
  /\ Len(registry) > Len(WrapperClasses)

Items == {registry[i] : i \in DOMAIN registry}

\* C9: get_selected() returns every registered instance when all_server is
\* set; otherwise the stored instance of each requested name, one per name
\* and in the order asked, or it raises KeyError, handing back no list, when
\* a requested name is not registered.
GetSelectedExact ==
  reg_call.op = "get_selected" =>
    LET names == reg_call.arg
        value == reg_call.value
    IN IF reg_call.all
         THEN /\ reg_call.out = Return
              /\ Len(value) = Len(registry)
              /\ {value[i] : i \in DOMAIN value} = {it.inst : it \in Items}
       ELSE IF \A i \in DOMAIN names : \E it \in Items : it.name = names[i]
         THEN /\ reg_call.out = Return
              /\ Len(value) = Len(names)
              /\ \A i \in DOMAIN names :
                   [name |-> names[i], inst |-> value[i]] \in Items
       ELSE /\ reg_call.out.exc = "KeyError"
            /\ value = NoValue

\* A registered name asked for together with one that is not.
GetSelectedWitness ==
  /\ reg_call.op = "get_selected"
  /\ ~reg_call.all
  /\ reg_call.arg = <<"vanilla 1.8", "no such server">>
  /\ reg_call.out.exc = "KeyError"

\* -------------------------------------------- translate_command: properties

\* The command without the whitespace around it: cmd[i..j].
IsTrimmed(cmd, i, j) ==
  /\ \A k \in 1..Len(cmd) : (k < i \/ k > j) => cmd[k] \in Whitespace
  /\ i <= j => (cmd[i] \notin Whitespace /\ cmd[j] \notin Whitespace)

\* "say X" becomes "alert X", "stop" becomes "end", others stay.
Translated(t) ==
  IF \E n \in 0..Len(t) : t = <<"s", "a", "y", " ">> \o SubSeq(t, Len(t) - n + 1, Len(t))
    THEN <<"a", "l", "e", "r", "t", " ">> \o SubSeq(t, 5, Len(t))
  ELSE IF t = <<"s", "t", "o", "p">> THEN <<"e", "n", "d">>
  ELSE t

\* C10: BungeeCord's translate_command trims the command and maps "say X"
\* to "alert X" and "stop" to "end", leaving other commands as trimmed; for
\* the Vanilla, Forge and Spigot wrappers the result is the command given.
TranslateCommandTable ==
  cmd_call.op = "translate_command" =>
    IF self = "bungeecord"
      THEN \E i \in 1..(Len(cmd_call.cmd) + 1) : \E j \in 0..Len(cmd_call.cmd) :
             /\ IsTrimmed(cmd_call.cmd, i, j)
             /\ cmd_call.out = Translated(SubSeq(cmd_call.cmd, i, j))
      ELSE cmd_call.out = cmd_call.cmd

\* " say hi\t" was translated by BungeeCord.
TranslateCommandWitness ==
  /\ cmd_call.op = "translate_command"
  /\ self = "bungeecord"
  /\ cmd_call.cmd = <<" ", "s", "a", "y", " ", "h", "i", "\t">>
  /\ cmd_call.out = <<"a", "l", "e", "r", "t", " ", "h", "i">>

\* ------------------------------------------------ world_address: properties

\* str is a dotted quad, four numbers of one to three digits, and no more.
IsQuad(str) == Len(str) + 1 \in re_quad(str, {1})

\* str is one to five digits and no more.
IsPort(str) == Len(str) + 1 \in re_digits(str, {1}, 1, 5)

\* The document has a first listener whose host has the shape ip:port.
WellFormed(file) == file.state = "host" /\ Len(split(file.host, ":")) = 2

\* C11: world_address never raises, whatever the wrapper and whatever the
\* state of the configuration file.  For BungeeCord a missing file, a
\* document that is not parseable and a document without a host of the
\* shape ip:port give (None, None); otherwise an ip that is not a dotted
\* quad gives None for the ip, 0.0.0.0 gives "localhost", and a port that
\* is not one to five digits gives None for the port.
WorldAddressNeverRaises ==
  adr_call.op = "world_address" =>
    /\ adr_call.out = Return
    /\ BaseOf(self) = "BungeeCordServerWrapper" =>
         IF ~WellFormed(adr_call.file)
           THEN adr_call.value = [ip |-> Null, port |-> Null]
           ELSE LET ip == strip(split(adr_call.file.host, ":")[1])
                    port == strip(split(adr_call.file.host, ":")[2])
                IN /\ ~IsQuad(ip) => adr_call.value.ip = Null
                   /\ ip = <<"0", ".", "0", ".", "0", ".", "0">>
                        => adr_call.value.ip = Val(Localhost)
                   /\ ~IsPort(port) => adr_call.value.port = Null

\* The values of the lines of text that are, from their first character to
\* their last, an entry key = value with a value of the kind of group.
EntryValues(text, key, group) ==
  LET ls == split(text, "\n")
      whole(l) == {sp \in line_groups(l, 1, key, group) :
                     Len(l) + 1 \in re_ws(l, {sp[2]})}
  IN UNION {{SubSeq(ls[k], sp[1], sp[2] - 1) : sp \in whole(ls[k])} :
              k \in DOMAIN ls}

\* Some line of text begins with key and an equals sign.
HasKey(text, key) ==
  \E k \in DOMAIN split(text, "\n") :
    re_lit(split(text, "\n")[k], re_ws(split(text, "\n")[k],
           re_lit(split(text, "\n")[k], {1}, key)), <<"=">>) # {}

\* C12: for the Vanilla wrappers and Spigot, world_address gives
\* (None, None) when server.properties cannot be read; otherwise the port
\* is the integer of a line server-port=<1-5 digits> that is an entry from
\* end to end, or None when the file has no such line, and the ip is the
\* dotted quad of a line server-ip=<dotted quad>, or "localhost" when no
\* line has the key.
WorldAddressFromProperties ==
  (adr_call.op = "world_address" /\ BaseOf(self) \in {"VanillaBase", "Spigot"}) =>
    /\ adr_call.out = Return
    /\ IF adr_call.file.state = "missing"
         THEN adr_call.value = [ip |-> Null, port |-> Null]
         ELSE LET ports == EntryValues(adr_call.file.text, ServerPort, "port")
                  ips == EntryValues(adr_call.file.text, ServerIp, "ip")
              IN /\ IF ports = {} THEN adr_call.value.port = Null
                      ELSE adr_call.value.port \in {Val(int(v)) : v \in ports}
                 /\ ips # {} => adr_call.value.ip \in {Val(v) : v \in ips}
                 /\ ~HasKey(adr_call.file.text, ServerIp)
                      => adr_call.value.ip = Val(Localhost)

\* ---------------------------------------------------- MCServer: properties

Capabilities ==
  {"name", "default_url", "install", "default_start_cmd", "translate_command",
   "log_path", "log_start_re", "log_error_re", "world_address"}

\* C13: every capability of MCServer, the wrapper that overrides none of
\* the abstract methods, ends by raising NotImplementedError when it is
\* called; none returns a value.
AbstractCapabilitiesRaise ==
  (self = "MCServer" /\ call.op \in Capabilities) =>
    call.out = Builtin("NotImplementedError")

\* ------------------------------------- ServerManager and a wrapper: properties

\* C17: the dict of the manager changes only by an add() that returns, which
\* appends one item of a name that was not a key: no item is removed or
\* replaced, and install(), reinstall(), is_online(), world_address(), get(),
\* get_all(), get_by_pred(), get_selected() and get_names() leave the dict as
\* it was; get() of a name that is no key returns None and does not raise.
RegistryChangesOnlyByAdd ==
  /\ [][registry' # registry =>
          /\ reg_call'.op = "add" /\ reg_call'.out = Return
          /\ reg_call'.pre = registry
          /\ Len(registry') = Len(registry) + 1
          /\ SubSeq(registry', 1, Len(registry)) = registry
          /\ registry'[Len(registry')].name \notin keys(registry)]_vars
  /\ [](reg_call.op # "none" /\ reg_call.op # "add" => registry = reg_call.pre)
  /\ []((reg_call.op = "get" /\ reg_call.arg \notin keys(reg_call.pre))
          => (reg_call.out = Return /\ reg_call.value = None))

\* After an extension was registered and the wrapper reinstalled, get() of an
\* unknown name returned None and the dict holds what it held.
RegistryChangesOnlyByAddWitness ==
  /\ reg_call.op = "get" /\ reg_call.arg = "no such server"
  /\ reg_call.value = None
  /\ "extension a" \in keys(registry)
  /\ registry = reg_call.pre
  /\ call.op = "reinstall"
  /\ adr_call.op = "world_address"

====
